---------------------------- MODULE Spec2Model ----------------------------
(***************************************************************************)
(* Speaker-verification core of the zaban backend: the voiceprint HTTP     *)
(* handlers (app/api/v1/voiceprint.py), the verifier service               *)
(* (app/services/voiceprint/verifier.py), the cohort helpers and the       *)
(* relational schema of the voiceprint tables.                             *)
(*                                                                         *)
(* Requests are served by several workers against one relational database  *)
(* and one vector store.  Every handler is cut at the points where another *)
(* request can be served in between: the awaited vector-store calls and    *)
(* the boundaries of relational statements/transactions.  A handler's call *)
(* of a verifier method is modelled as running that method's body.         *)
(*                                                                         *)
(* Embeddings are two-dimensional integer vectors; a unit vector is        *)
(* represented by the primitive integer vector of its direction.           *)
(***************************************************************************)
EXTENDS Integers, Sequences, FiniteSets, TLC

(* ------------------------------ bounds --------------------------------- *)
NumWorkers == 2
MaxCohortLen == 3
MaxKeys == 3
MaxOverlapping == 2
MaxRequests == 3

(* ------------------------- program constants --------------------------- *)
VERIFICATION_THRESHOLD == 3
COHORT_TOP_K == 30
MIN_ENROLLMENT_SAMPLES == 3
MAX_ENROLLMENT_SAMPLES == 10

(* Fixed-point resolution of the scores: means, deviations and normalized *)
(* scores are in units of 1/Scale of a score unit.                         *)
Scale == 100
(* Fixed-point image of the 1e-8 that replaces a zero deviation: one score *)
(* unit, so that deviations below it that are not zero exist.              *)
SigmaFloor == Scale

None == "None"
(* existing_vp / voiceprint is None: no row id. *)
NoRow == 0

Procs == 1..NumWorkers
Customers == {"alice", "bob"}

(* An uploaded clip is named by its content; "none" is a missing upload. *)
Clips == {"low", "high"}

Rep(n, x) == [i \in 1..n |-> x]

(* The file lists of the enroll requests. *)
FileLists ==
    { Rep(MIN_ENROLLMENT_SAMPLES - 1, "low"),
      Rep(MIN_ENROLLMENT_SAMPLES, "low"),
      Rep(MAX_ENROLLMENT_SAMPLES, "high"),
      Rep(MAX_ENROLLMENT_SAMPLES + 1, "low"),
      <<"low", "corrupt", "low">> }

(* The contents the cohort collection may have been seeded with. *)
CohortVector(i) ==
    CASE i % 16 = 0 -> <<2, 1>>
      [] i % 16 = 8 -> <<1, 2>>
      [] OTHER      -> <<1, 1>>
CohortOf(n) == [i \in 1..n |-> CohortVector(i)]
CohortSizes == {0, 2, COHORT_TOP_K + 2}
CohortChoices == {CohortOf(n) : n \in CohortSizes}

VARIABLES
    voiceprints,   \* rows of table voiceprints
    attempts,      \* rows of table verification_attempts, in insertion order
    enrolled,      \* the enrolled collection: point id -> point, for the stored ids
    cohort,        \* the cohort collection: sequence of vectors
    nextId,        \* next fresh row id (uuid4)
    pc,            \* per worker: position in the handler it is serving
    loc,           \* per worker: the handler's local variables
    last,          \* the response most recently sent
    issued,        \* number of requests received so far
    deleted,       \* customers whose row a delete removed, not re-enrolled since
    committed,     \* customer id -> the point upserted by the enroll that committed its row
    threshold,     \* self.threshold of the verifier, in units of 1/Scale
    VOICEPRINT_ENABLED, \* the feature toggle of the settings
    disk,          \* the temporary files that exist
    content,       \* the bytes in the upload files that exist: records path, bytes
    digest,        \* customer id -> the 60 bits of its sha256 the point id is made of
    calc,          \* the function call made last: function, arguments, value
    api_keys,      \* rows of table api_keys
    key_last,      \* the response most recently sent by an API-key or service endpoint
    revoked,       \* ids of the keys whose owner's delete was answered 204
    tasks,         \* per worker: the awaits of a verify_speaker call
    collections    \* collection name -> what the vector store holds under it

vars == <<voiceprints, attempts, enrolled, cohort, nextId, pc, loc, last, issued,
          deleted, committed, threshold, VOICEPRINT_ENABLED, disk, content, digest, calc,
          api_keys, key_last, revoked, tasks, collections>>

(* What is fixed when the service starts, and the hash function. *)
config == <<threshold, VOICEPRINT_ENABLED, digest>>

(* What the request handlers of the voiceprint API leave alone. *)
aside == <<calc, api_keys, key_last, revoked, tasks, collections>>

NoCall == [fn |-> "none"]

(* self.embedding_dim of the ECAPA embedder. *)
EmbeddingDim == 192

(* settings.ENROLLED_COLLECTION, settings.COHORT_COLLECTION *)
CollectionNames == {"enrolled", "cohort"}

(* No collection of the name. *)
Absent == [exists |-> FALSE, size |-> 0, distance |-> "", points |-> {}]

(* What create_collection(size=embedding_dim, distance=COSINE) makes. *)
Created == [exists |-> TRUE, size |-> EmbeddingDim, distance |-> "Cosine", points |-> {}]

(* No verify_speaker call in progress: nothing submitted, nothing awaited. *)
NoTasks == [at |-> "idle", raw_score |-> "not_started",
            cohort_enroll |-> "not_started", cohort_test |-> "not_started",
            as_norm |-> "not_started"]

AsideInit ==
    /\ calc = NoCall
    /\ api_keys = {}
    /\ key_last = [op |-> "none", key_id |-> 0, status |-> 0]
    /\ revoked = {}
    /\ tasks = [p \in Procs |-> NoTasks]

(* ------------------------------ vectors -------------------------------- *)
RECURSIVE GCD(_, _)
GCD(a, b) == IF b = 0 THEN a ELSE GCD(b, a % b)

Dot(a, b) == a[1] * b[1] + a[2] * b[2]

RECURSIVE VecSum(_)
VecSum(s) ==
    IF s = <<>> THEN <<0, 0>>
    ELSE LET r == VecSum(Tail(s)) IN <<Head(s)[1] + r[1], Head(s)[2] + r[2]>>

(* centroid / norm when norm > 0: the unit vector of the same direction. *)
L2Normalize(v) ==
    LET g == GCD(v[1], v[2])
    IN IF g > 0 THEN <<v[1] \div g, v[2] \div g>> ELSE v

(* ECAPAEmbedder.extract_embedding on the decoded clip. *)
extract_embedding(clip) ==
    CASE clip = "low"  -> <<1, 0>>
      [] clip = "high" -> <<0, 1>>

(* load_audio and the embedder succeed on the clip; they raise on a file *)
(* that cannot be decoded.                                               *)
Extractable(clip) == clip # "corrupt"

(* The mean of the embeddings has the direction of their sum. *)
Centroid(files) ==
    L2Normalize(VecSum([i \in 1..Len(files) |-> extract_embedding(files[i])]))

(* The customer ids in use hash to different values ... *)
DistinctDigests == [c \in Customers |-> IF c = "alice" THEN 1 ELSE 2]
(* ... or they are a colliding pair. *)
CollidingDigests == [c \in Customers |-> 1]

(* int(hashlib.sha256(customer_id.encode()).hexdigest()[:15], 16) % (2**63): *)
(* fifteen hex digits are below 2**60, the remainder is the value itself.    *)
point_id(c) == digest[c]
PointIds == {point_id(c) : c \in Customers}

(* ------------------------------ scoring -------------------------------- *)
(* _stat_single: the statistics object of one embedding, a one-row matrix. *)
stat_single(emb) == <<emb>>

(* _stat_batch: the statistics object of N embeddings, one row each, in the *)
(* order given.                                                             *)
stat_batch(embs) == embs

(* speechbrain's fast_PLDA_scoring(enroll, test, ndx, ...): the score matrix *)
(* with one row per enroll row and one column per test row, in the order of *)
(* the rows of the statistics objects.  The entry stands in for the PLDA    *)
(* log-likelihood ratio: symmetric, highest for embeddings of the same      *)
(* direction.                                                               *)
fast_PLDA_scoring(enroll, test) ==
    [m \in 1..Len(enroll) |->
        [s \in 1..Len(test) |->
            (10 * Dot(enroll[m], test[s]) * Dot(enroll[m], test[s]))
               \div (Dot(enroll[m], enroll[m]) * Dot(test[s], test[s]))]]

(* scores.scoremat[0, 0] of one enroll row against one test row. *)
plda_score(emb1, emb2) ==
    fast_PLDA_scoring(stat_single(emb1), stat_single(emb2))[1][1]

(* v is at least as close to q (cosine) as w. *)
Closer(q, v, w) ==
    Dot(q, v) * Dot(q, v) * Dot(w, w) >= Dot(q, w) * Dot(q, w) * Dot(v, v)

(* Point j is returned before point i: nearer to q, lower index on ties. *)
Before(coll, q, j, i) ==
    \/ ~Closer(q, coll[i], coll[j])
    \/ Closer(q, coll[j], coll[i]) /\ Closer(q, coll[i], coll[j]) /\ j < i

(* query_points(limit=k): the k points of coll nearest to q, nearest first. *)
TopK(coll, q, k) ==
    LET n    == Len(coll)
        rank == [i \in 1..n |-> Cardinality({j \in 1..n : Before(coll, q, j, i)})]
        m    == IF k < n THEN k ELSE n
    IN [r \in 1..m |-> coll[CHOOSE i \in 1..n : rank[i] = r - 1]]

(* query_points(limit=k, with_vectors=True), points without vector dropped. *)
get_top_k_cohort_vectors(coll, query_emb, k) ==
    SelectSeq(TopK(coll, query_emb, k), LAMBDA v : v # <<>>)

(* Every cohort vector scored against the first one. *)
CohortScoresFirstColumn(reference_emb, cohort_vectors) ==
    [i \in 1..Len(cohort_vectors) |->
        fast_PLDA_scoring(stat_single(reference_emb), stat_batch(cohort_vectors))[1][1]]

(* One batched call: scores.scoremat[0, :].tolist(), [] for no vectors. *)
compute_cohort_plda_scores(reference_emb, cohort_vectors) ==
    IF cohort_vectors = <<>>
      THEN <<>>
      ELSE fast_PLDA_scoring(stat_single(reference_emb), stat_batch(cohort_vectors))[1]

RECURSIVE SeqSum(_)
SeqSum(s) == IF s = <<>> THEN 0 ELSE Head(s) + SeqSum(Tail(s))

ISqrt(n) == CHOOSE r \in 0..n : r * r <= n /\ (r + 1) * (r + 1) > n

(* np.mean, in units of 1/Scale. *)
Mean(scores) == (SeqSum(scores) * Scale) \div Len(scores)

(* np.std(x) or 1e-8, in units of 1/Scale. *)
Std(scores) ==
    LET mu  == Mean(scores)
        var == SeqSum([i \in 1..Len(scores) |->
                         (scores[i] * Scale - mu) * (scores[i] * Scale - mu)])
                 \div Len(scores)
        sd  == ISqrt(var)
    IN IF sd = 0 THEN SigmaFloor ELSE sd

compute_as_norm_score(raw_score, enrollment_cohort_scores, test_cohort_scores) ==
    LET mu_e    == Mean(enrollment_cohort_scores)
        sigma_e == Std(enrollment_cohort_scores)
        mu_t    == Mean(test_cohort_scores)
        sigma_t == Std(test_cohort_scores)
    IN ( ((raw_score * Scale - mu_e) * Scale) \div sigma_e
       + ((raw_score * Scale - mu_t) * Scale) \div sigma_t ) \div 2

(* verify_speaker from the raw score to the normalized score. *)
ScoreSpeaker(coll, user_emb, test_emb) ==
    LET raw_score     == plda_score(user_emb, test_emb)
        cohort_enroll == get_top_k_cohort_vectors(coll, user_emb, COHORT_TOP_K)
        cohort_test   == get_top_k_cohort_vectors(coll, test_emb, COHORT_TOP_K)
    IN IF cohort_enroll = <<>> \/ cohort_test = <<>>
         THEN [error |-> "Cohort empty", score |-> None, raw_score |-> raw_score,
               cohort_used |-> <<Len(cohort_enroll), Len(cohort_test)>>]
         ELSE LET scores_enroll == compute_cohort_plda_scores(user_emb, cohort_enroll)
                  scores_test   == compute_cohort_plda_scores(test_emb, cohort_test)
                  s_norm == compute_as_norm_score(raw_score, scores_enroll, scores_test)
              IN [error |-> None, score |-> s_norm, raw_score |-> raw_score,
                  cohort_used |-> <<Len(cohort_enroll), Len(cohort_test)>>,
                  cohort_stats |->
                     [enrollment_cohort_mean |-> Mean(scores_enroll),
                      enrollment_cohort_std  |-> Std(scores_enroll),
                      test_cohort_mean       |-> Mean(scores_test),
                      test_cohort_std        |-> Std(scores_test)]]

(* The embeddings that occur: of the clips, and the centroids of the file lists. *)
Embeddings ==
    {extract_embedding(clip) : clip \in Clips} \cup
    {Centroid(files) :
        files \in {f \in FileLists : \A i \in 1..Len(f) : Extractable(f[i])}}

(* ScoreSpeaker, evaluated once per argument triple. *)
ScoreSpeakerTable ==
    [coll \in CohortChoices |->
        [u \in Embeddings |-> [t \in Embeddings |-> ScoreSpeaker(coll, u, t)]]]

(* The values VERIFICATION_THRESHOLD is configured with: the default, zero, *)
(* and the (negative) score a mismatching clip gets against the full      *)
(* cohort.                                                                 *)
ThresholdChoices ==
    { VERIFICATION_THRESHOLD * Scale,
      0,
      ScoreSpeakerTable[CohortOf(COHORT_TOP_K + 2)][<<1, 0>>][<<0, 1>>].score }

(* ---------------------------- vector store ----------------------------- *)
(* An upsert that leaves an existing point as it is. *)
UpsertKeep(coll, id, point) ==
    [i \in (DOMAIN coll) \cup {id} |-> IF i \in DOMAIN coll THEN coll[i] ELSE point]

(* upsert: create or replace the point at a caller-chosen id. *)
Upsert(coll, id, point) ==
    [i \in (DOMAIN coll) \cup {id} |-> IF i = id THEN point ELSE coll[i]]

DeletePoint(coll, id) == [i \in (DOMAIN coll) \ {id} |-> coll[i]]

(* retrieve(ids=[id]): the list of the points found. *)
PointAt(coll, id) == IF id \in DOMAIN coll THEN <<coll[id]>> ELSE <<>>

(* ----------------------------- relational ------------------------------ *)
RowsOf(c) == {v \in voiceprints : v.customer_id = c}
ActiveRowsOf(c) == {v \in voiceprints : v.customer_id = c /\ v.is_active}
VpIds == {v.id : v \in voiceprints}

(* query(...).first(): some matching row, or None. *)
First(rows) == IF rows = {} THEN NoRow ELSE (CHOOSE v \in rows : TRUE).id

(* A DELETE that removes nothing. *)
RowsKept(rows, id) == rows

(* DELETE FROM voiceprints WHERE id = ..., with ON DELETE CASCADE. *)
RowsWithout(rows, id) == {v \in rows : v.id # id}

(* A foreign key that does not cascade. *)
AttemptsKept(atts, id) == atts

(* verification_attempts.voiceprint_id ... ON DELETE CASCADE *)
AttemptsWithout(atts, id) == SelectSeq(atts, LAMBDA a : a.voiceprint_id # id)

(* The schema without its unique constraints. *)
UniqueViolationOff(rows, new) == FALSE

(* uq_voiceprints_customer_id and ix_voiceprints_qdrant_vector_id. *)
UniqueViolation(rows, new) ==
    \E v \in rows : v.customer_id = new.customer_id
                    \/ v.qdrant_vector_id = new.qdrant_vector_id

(* ------------------------------ responses ------------------------------ *)
Response(p, op, c, status, detail) ==
    [op |-> op, customer_id |-> c, status |-> status,
     detail |-> detail, verified |-> FALSE, score |-> None, raw_score |-> None,
     threshold |-> None, cohort_size |-> None, error |-> None,
     num_samples |-> None, cohort_used |-> None, history |-> None,
     cohort_stats |-> None]

(* get_verifier: the verifier of the application state, None when the     *)
(* feature is disabled.                                                    *)
get_verifier == IF ~VOICEPRINT_ENABLED THEN None ELSE "voice_verifier"

(* _service_unavailable_response *)
ServiceUnavailable(op, c) ==
    Response(0, op, c, 503,
             IF ~VOICEPRINT_ENABLED THEN "Voiceprint service is disabled"
             ELSE "Voiceprint service is not initialized")

Idle == [op |-> "idle"]

(* An idle worker takes the next request. *)
Receive(p) ==
    /\ pc[p] = "idle"
    /\ issued < MaxRequests
    /\ issued' = issued + 1
    /\ UNCHANGED <<config, disk, content, aside>>

Finish(p, r) ==
    /\ pc' = [pc EXCEPT ![p] = "idle"]
    /\ loc' = [loc EXCEPT ![p] = Idle]
    /\ last' = r

Goto(p, label, l) ==
    /\ pc' = [pc EXCEPT ![p] = label]
    /\ loc' = [loc EXCEPT ![p] = l]
    /\ UNCHANGED last

(* A later step of a request already received. *)
Step(p, label) ==
    /\ pc[p] = label
    /\ UNCHANGED <<issued, config, disk, content, aside>>

(* ------------------------------- Init ---------------------------------- *)
Init ==
    /\ voiceprints = {}
    /\ attempts = <<>>
    /\ enrolled = <<>>
    /\ cohort \in CohortChoices
    /\ nextId = 1
    /\ pc = [p \in Procs |-> "idle"]
    /\ loc = [p \in Procs |-> Idle]
    /\ last = Response(0, "none", None, 0, None)
    /\ issued = 0
    /\ deleted = {}
    /\ committed = [c \in Customers |-> <<>>]
    /\ threshold \in ThresholdChoices
    \* another threshold than the default is looked at with the full cohort
    /\ threshold = VERIFICATION_THRESHOLD * Scale \/ Len(cohort) > COHORT_TOP_K
    /\ VOICEPRINT_ENABLED \in BOOLEAN
    /\ disk = {}
    /\ content = {}
    /\ digest = DistinctDigests
    /\ AsideInit
    /\ collections = [name \in CollectionNames |-> Created]

(* ------------------------------- enroll -------------------------------- *)

(* An enroll that goes on with the clips whose extraction succeeded. *)
EnrollStartSkipsFailed(p, c, files) ==
    /\ Receive(p)
    /\ UNCHANGED <<voiceprints, attempts, enrolled, cohort, nextId, deleted, committed>>
    /\ IF get_verifier = None
          THEN Finish(p, ServiceUnavailable("enroll", c))
       ELSE IF Len(files) < MIN_ENROLLMENT_SAMPLES
          THEN Finish(p, Response(p, "enroll", c, 400, "audio samples required"))
       ELSE IF Len(files) > MAX_ENROLLMENT_SAMPLES
          THEN Finish(p, Response(p, "enroll", c, 500, "ValueError"))
       ELSE Goto(p, "enroll_upsert",
                 [op |-> "enroll", customer_id |-> c,
                  centroid |-> Centroid(SelectSeq(files, Extractable)),
                  num_samples |-> Len(files)])

(* enroll_voiceprint up to the upsert: sample-count checks, extraction of *)
(* every clip (gather: the first failure is raised), centroid.            *)
EnrollStart(p, c, files) ==
    /\ Receive(p)
    /\ UNCHANGED <<voiceprints, attempts, enrolled, cohort, nextId, deleted, committed>>
    /\ IF get_verifier = None
          THEN Finish(p, ServiceUnavailable("enroll", c))
       ELSE IF Len(files) < MIN_ENROLLMENT_SAMPLES
          THEN Finish(p, Response(p, "enroll", c, 400, "audio samples required"))
       ELSE IF Len(files) > MAX_ENROLLMENT_SAMPLES
          THEN Finish(p, Response(p, "enroll", c, 500, "ValueError"))
       ELSE IF \E i \in 1..Len(files) : ~Extractable(files[i])
          THEN Finish(p, Response(p, "enroll", c, 500, "ExtractionError"))
       ELSE Goto(p, "enroll_upsert",
                 [op |-> "enroll", customer_id |-> c,
                  centroid |-> Centroid(files), num_samples |-> Len(files)])

(* async_client.upsert of the centroid at point_id(customer_id). *)
EnrollUpsert(p) ==
    /\ Step(p, "enroll_upsert")
    /\ UNCHANGED <<voiceprints, attempts, cohort, nextId, deleted, committed>>
    /\ \E storeOk \in BOOLEAN :
          IF storeOk
            THEN /\ enrolled' = Upsert(enrolled, point_id(loc[p].customer_id),
                                        [customer_id |-> loc[p].customer_id,
                                         vector |-> loc[p].centroid,
                                         num_samples |-> loc[p].num_samples])
                 /\ Goto(p, "enroll_query",
                         [op |-> "enroll", customer_id |-> loc[p].customer_id,
                          centroid |-> loc[p].centroid,
                          num_samples |-> loc[p].num_samples,
                          prior |-> PointAt(enrolled, point_id(loc[p].customer_id))])
            ELSE /\ UNCHANGED enrolled
                 /\ Finish(p, Response(p, "enroll", loc[p].customer_id, 500, "StoreError"))

(* existing_vp = db.query(Voiceprint).filter(customer_id == ...).first() *)
EnrollQuery(p) ==
    /\ Step(p, "enroll_query")
    /\ UNCHANGED <<voiceprints, attempts, enrolled, cohort, nextId, deleted, committed>>
    /\ Goto(p, "enroll_commit",
            [op |-> "enroll", customer_id |-> loc[p].customer_id,
             centroid |-> loc[p].centroid, num_samples |-> loc[p].num_samples,
             prior |-> loc[p].prior,
             existing_vp |-> First(RowsOf(loc[p].customer_id))])

NewVoiceprint(id, c) ==
    [id |-> id, customer_id |-> c, qdrant_vector_id |-> point_id(c),
     is_active |-> TRUE, verification |-> FALSE, last_verified_at |-> None]

(* db.delete(existing_vp); db.flush(); db.add(new_vp); db.commit() *)
EnrollCommit(p) ==
    /\ Step(p, "enroll_commit")
    /\ UNCHANGED <<enrolled, cohort>>
    /\ LET c     == loc[p].customer_id
           rows1 == RowsWithout(voiceprints, loc[p].existing_vp)
           new   == NewVoiceprint(nextId, c)
       IN IF UniqueViolation(rows1, new)
            THEN /\ UNCHANGED <<voiceprints, attempts, nextId, deleted, committed>>
                 /\ Finish(p, Response(p, "enroll", c, 500, "IntegrityError"))
            ELSE /\ voiceprints' = rows1 \cup {new}
                 /\ attempts' = AttemptsWithout(attempts, loc[p].existing_vp)
                 /\ nextId' = nextId + 1
                 /\ deleted' = deleted \ {c}
                 /\ committed' = [committed EXCEPT ![c] =
                                     <<[customer_id |-> c, vector |-> loc[p].centroid,
                                        num_samples |-> loc[p].num_samples]>>]
                 /\ Finish(p, [Response(p, "enroll", c, 200, "success")
                                 EXCEPT !.num_samples = loc[p].num_samples])

(* ------------------------------- delete -------------------------------- *)
(* A delete handler that goes on when it finds no row. *)
DeleteQueryNoCheck(p, c) ==
    /\ Receive(p)
    /\ UNCHANGED <<voiceprints, attempts, enrolled, cohort, nextId, deleted, committed>>
    /\ IF get_verifier = None
          THEN Finish(p, ServiceUnavailable("delete", c))
          ELSE Goto(p, "delete_commit",
                    [op |-> "delete", customer_id |-> c, vp |-> First(RowsOf(c))])

(* vp = db.query(Voiceprint).filter(customer_id == ...).first() *)
DeleteQuery(p, c) ==
    /\ Receive(p)
    /\ UNCHANGED <<voiceprints, attempts, enrolled, cohort, nextId, deleted, committed>>
    /\ IF get_verifier = None
          THEN Finish(p, ServiceUnavailable("delete", c))
       ELSE IF RowsOf(c) = {}
          THEN Finish(p, Response(p, "delete", c, 404, "Voiceprint not found"))
       ELSE Goto(p, "delete_commit",
                    [op |-> "delete", customer_id |-> c, vp |-> First(RowsOf(c))])

(* db.delete(vp); db.commit() *)
DeleteCommit(p) ==
    /\ Step(p, "delete_commit")
    /\ UNCHANGED <<enrolled, cohort, nextId>>
    /\ voiceprints' = RowsWithout(voiceprints, loc[p].vp)
    /\ attempts' = AttemptsWithout(attempts, loc[p].vp)
    /\ deleted' = IF loc[p].vp \in VpIds THEN deleted \cup {loc[p].customer_id}
                  ELSE deleted
    /\ committed' = IF loc[p].vp \in VpIds
                       THEN [committed EXCEPT ![loc[p].customer_id] = <<>>]
                       ELSE committed
    /\ Goto(p, "delete_count", loc[p])

(* remaining = db.query(Voiceprint).filter(customer_id == ...).count() *)
DeleteCount(p) ==
    /\ Step(p, "delete_count")
    /\ UNCHANGED <<voiceprints, attempts, enrolled, cohort, nextId, deleted, committed>>
    /\ IF Cardinality(RowsOf(loc[p].customer_id)) = 0
          THEN Goto(p, "delete_vector", loc[p])
          ELSE Finish(p, Response(p, "delete", loc[p].customer_id, 200, "success"))

(* verifier.delete_user: the store's failure is caught and returned as a dict *)
(* the handler does not look at. *)
DeleteVector(p) ==
    /\ Step(p, "delete_vector")
    /\ UNCHANGED <<voiceprints, attempts, cohort, nextId, deleted, committed>>
    /\ \E storeOk \in BOOLEAN :
          enrolled' = IF storeOk
                        THEN DeletePoint(enrolled, point_id(loc[p].customer_id))
                        ELSE enrolled
    /\ Finish(p, Response(p, "delete", loc[p].customer_id, 200, "success"))

(* ------------------------------- verify -------------------------------- *)
(* A verify handler that does not look for the active voiceprint row. *)
VerifyStartNoRowCheck(p, c, clip) ==
    /\ Receive(p)
    /\ UNCHANGED <<voiceprints, attempts, enrolled, cohort, nextId, deleted, committed>>
    /\ IF get_verifier = None
          THEN Finish(p, ServiceUnavailable("verify", c))
       ELSE IF clip = "none"
          THEN Finish(p, Response(p, "verify", c, 400, "No audio provided"))
       ELSE IF ~Extractable(clip)
          THEN Finish(p, Response(p, "verify", c, 500, "ExtractionError"))
       ELSE Goto(p, "verify_retrieve",
                    [op |-> "verify", customer_id |-> c,
                     voiceprint |-> First(ActiveRowsOf(c)),
                     test_emb |-> extract_embedding(clip)])

(* verify_voiceprint up to the centroid lookup: active row, audio present, *)
(* extraction of the test embedding. *)
VerifyStart(p, c, clip) ==
    /\ Receive(p)
    /\ UNCHANGED <<voiceprints, attempts, enrolled, cohort, nextId, deleted, committed>>
    /\ IF get_verifier = None
          THEN Finish(p, ServiceUnavailable("verify", c))
       ELSE IF ActiveRowsOf(c) = {}
          THEN Finish(p, Response(p, "verify", c, 400, "No active voiceprint found for user"))
       ELSE IF clip = "none"
          THEN Finish(p, Response(p, "verify", c, 400, "No audio provided"))
       ELSE IF ~Extractable(clip)
          THEN Finish(p, Response(p, "verify", c, 500, "ExtractionError"))
       ELSE Goto(p, "verify_retrieve",
                 [op |-> "verify", customer_id |-> c,
                  voiceprint |-> First(ActiveRowsOf(c)),
                  test_emb |-> extract_embedding(clip)])

ErrorResult(c, error) ==
    [Response(0, "verify", c, 200, "error")
       EXCEPT !.threshold = threshold, !.error = error]

(* get_user_embedding: a failing retrieve is caught and gives None. *)
VerifyRetrieve(p) ==
    /\ Step(p, "verify_retrieve")
    /\ UNCHANGED <<voiceprints, attempts, enrolled, cohort, nextId, deleted, committed>>
    /\ \E storeOk \in BOOLEAN :
         LET c   == loc[p].customer_id
             pid == point_id(c)
             out == PointAt(enrolled, pid)
         IN IF storeOk /\ out # <<>>
              THEN Goto(p, "verify_cohort",
                        [op |-> "verify", customer_id |-> c,
                         voiceprint |-> loc[p].voiceprint,
                         test_emb |-> loc[p].test_emb,
                         user_emb |-> out[1].vector])
              ELSE Finish(p, ErrorResult(c, "Customer not found"))

(* A decision that also accepts a score equal to the threshold. *)
VerifiedAtLeast(s_norm, thr) == s_norm >= thr

(* verified = s_norm > self.threshold *)
Verified(s_norm, thr) == s_norm > thr

(* verify_speaker from the raw score to its return value. *)
VerifySpeaker(coll, user_emb, test_emb, thr) ==
    LET s == ScoreSpeakerTable[coll][user_emb][test_emb]
    IN IF s.error # None
         THEN [verified |-> FALSE, error |-> s.error, score |-> None,
               raw_score |-> s.raw_score]
         ELSE [verified |-> Verified(s.score, thr),
               error |-> None,
               score |-> s.score,
               raw_score |-> s.raw_score,
               threshold |-> thr,
               cohort_size |-> COHORT_TOP_K,
               cohort_used |-> s.cohort_used,
               cohort_stats |-> s.cohort_stats]

VerifyCohort(p) ==
    /\ Step(p, "verify_cohort")
    /\ UNCHANGED <<voiceprints, attempts, enrolled, cohort, nextId, deleted, committed>>
    /\ \E storeOk \in BOOLEAN :
         LET c == loc[p].customer_id
             result == VerifySpeaker(cohort, loc[p].user_emb, loc[p].test_emb, threshold)
         IN IF ~storeOk
              THEN Finish(p, Response(p, "verify", c, 500, "StoreError"))
            ELSE IF result.error # None
              THEN Finish(p, ErrorResult(c, result.error))
            ELSE Goto(p, "verify_commit",
                      [op |-> "verify", customer_id |-> c,
                       voiceprint |-> loc[p].voiceprint, result |-> result])

(* A handler that writes the outcome of this call into the flag. *)
MarkVerifiedAssign(rows, id, is_verified) ==
    { IF v.id = id
        THEN [v EXCEPT !.verification = is_verified,
                       !.last_verified_at = IF is_verified THEN "now" ELSE None]
        ELSE v : v \in rows }

(* if is_verified: voiceprint.verification = True; last_verified_at = now *)
MarkVerified(rows, id, is_verified) ==
    { IF v.id = id /\ is_verified
        THEN [v EXCEPT !.verification = TRUE, !.last_verified_at = "now"]
        ELSE v : v \in rows }

(* A verify handler that logs the attempt only when the speaker verified. *)
VerifyCommitLogsAccepted(p) ==
    /\ Step(p, "verify_commit")
    /\ UNCHANGED <<enrolled, cohort, nextId, deleted, committed>>
    /\ LET c == loc[p].customer_id
           result == loc[p].result
           attempt == [voiceprint_id |-> loc[p].voiceprint,
                       raw_plda_score |-> result.raw_score,
                       as_norm_score |-> result.score,
                       threshold |-> result.threshold]
       IN IF loc[p].voiceprint \notin VpIds
            THEN /\ UNCHANGED <<voiceprints, attempts>>
                 /\ Finish(p, Response(p, "verify", c, 500, "IntegrityError"))
            ELSE /\ attempts' = IF result.verified THEN Append(attempts, attempt)
                                ELSE attempts
                 /\ voiceprints' = MarkVerified(voiceprints, loc[p].voiceprint,
                                                 result.verified)
                 /\ Finish(p, [Response(p, "verify", c, 200, "decision")
                                 EXCEPT !.verified = result.verified,
                                        !.score = result.score,
                                        !.raw_score = result.raw_score,
                                        !.threshold = result.threshold,
                                        !.cohort_size = result.cohort_size,
                                        !.cohort_used = result.cohort_used,
                                        !.cohort_stats = result.cohort_stats])

(* db.add(attempt); mark the voiceprint when verified; db.commit() *)
VerifyCommit(p) ==
    /\ Step(p, "verify_commit")
    /\ UNCHANGED <<enrolled, cohort, nextId, deleted, committed>>
    /\ LET c == loc[p].customer_id
           result == loc[p].result
           attempt == [voiceprint_id |-> loc[p].voiceprint,
                       raw_plda_score |-> result.raw_score,
                       as_norm_score |-> result.score,
                       threshold |-> result.threshold]
       IN IF loc[p].voiceprint \notin VpIds
            THEN /\ UNCHANGED <<voiceprints, attempts>>
                 /\ Finish(p, Response(p, "verify", c, 500, "IntegrityError"))
            ELSE /\ attempts' = Append(attempts, attempt)
                 /\ voiceprints' = MarkVerified(voiceprints, loc[p].voiceprint,
                                                 result.verified)
                 /\ Finish(p, [Response(p, "verify", c, 200, "decision")
                                 EXCEPT !.verified = result.verified,
                                        !.score = result.score,
                                        !.raw_score = result.raw_score,
                                        !.threshold = result.threshold,
                                        !.cohort_size = result.cohort_size,
                                        !.cohort_used = result.cohort_used,
                                        !.cohort_stats = result.cohort_stats])

(* ------------------------------- update -------------------------------- *)
(* PATCH /voiceprint/{voiceprint_id}: activate or deactivate a voiceprint. *)
UpdateVoiceprint(p, voiceprint_id, is_active) ==
    /\ Receive(p)
    /\ UNCHANGED <<attempts, enrolled, cohort, nextId, deleted, committed, pc, loc>>
    /\ IF voiceprint_id \notin VpIds
          THEN /\ UNCHANGED voiceprints
               /\ last' = Response(p, "update", None, 404, "Voiceprint not found")
          ELSE LET vp == CHOOSE v \in voiceprints : v.id = voiceprint_id
               IN /\ voiceprints' =
                       { IF v.id = voiceprint_id
                           THEN [v EXCEPT !.is_active = is_active]
                         ELSE IF is_active /\ v.customer_id = vp.customer_id
                           THEN [v EXCEPT !.is_active = FALSE]
                         ELSE v : v \in voiceprints }
                  /\ last' = Response(p, "update", vp.customer_id, 200,
                                      IF is_active THEN "activated" ELSE "deactivated")

(* ------------------------------- history ------------------------------- *)
(* GET /voiceprint/verify/{customer_id}/history: the attempts of the       *)
(* customer's voiceprint, newest first.                                    *)
get_verification_history(p, c) ==
    /\ Receive(p)
    /\ UNCHANGED <<voiceprints, attempts, enrolled, cohort, nextId, deleted, committed, pc, loc>>
    /\ IF RowsOf(c) = {}
          THEN last' = Response(p, "history", c, 404,
                                "Voiceprint not found for this customer")
          ELSE LET own == SelectSeq(attempts,
                                    LAMBDA a : a.voiceprint_id = First(RowsOf(c)))
               IN last' = [Response(p, "history", c, 200, "history")
                             EXCEPT !.history =
                               [i \in 1..Len(own) |-> own[Len(own) + 1 - i]]]

(* ------------------------------- health -------------------------------- *)
(* GET /voiceprint/health: is the vector store reachable. *)
voiceprint_health(p) ==
    /\ Receive(p)
    /\ UNCHANGED <<voiceprints, attempts, enrolled, cohort, nextId, deleted, committed, pc, loc>>
    /\ IF get_verifier = None
          THEN last' = ServiceUnavailable("health", None)
          ELSE \E storeOk \in BOOLEAN :
                 last' = Response(p, "health", None, 200,
                                  IF storeOk THEN "healthy" ELSE "unhealthy")

(* -------------------------------- Next --------------------------------- *)
Serve(p) ==
        \/ \E c \in Customers, files \in FileLists : EnrollStart(p, c, files)
        \/ EnrollUpsert(p)
        \/ EnrollQuery(p)
        \/ EnrollCommit(p)
        \/ \E c \in Customers : DeleteQuery(p, c)
        \/ DeleteCommit(p)
        \/ DeleteCount(p)
        \/ DeleteVector(p)
        \/ \E c \in Customers, clip \in Clips \cup {"none", "corrupt"} :
              VerifyStart(p, c, clip)
        \/ VerifyRetrieve(p)
        \/ VerifyCohort(p)
        \/ VerifyCommit(p)
        \/ \E id \in 1..MaxRequests, a \in BOOLEAN : UpdateVoiceprint(p, id, a)
        \/ \E c \in Customers : get_verification_history(p, c)
        \/ voiceprint_health(p)

Next == \E p \in Procs : Serve(p)

Spec == Init /\ [][Next]_vars

(* One request at a time: a request is received only when no other is in *)
(* flight. *)
NextSeq == \E p \in Procs : (\A q \in Procs \ {p} : pc[q] = "idle") /\ Serve(p)

SeqSpec == Init /\ [][NextSeq]_vars

(* The service with two customer ids whose point ids collide. *)
CollisionInit ==
    /\ voiceprints = {}
    /\ attempts = <<>>
    /\ enrolled = <<>>
    /\ cohort \in CohortChoices
    /\ nextId = 1
    /\ pc = [p \in Procs |-> "idle"]
    /\ loc = [p \in Procs |-> Idle]
    /\ last = Response(0, "none", None, 0, None)
    /\ issued = 0
    /\ deleted = {}
    /\ committed = [c \in Customers |-> <<>>]
    /\ threshold = VERIFICATION_THRESHOLD * Scale
    /\ VOICEPRINT_ENABLED = TRUE
    /\ disk = {}
    /\ content = {}
    /\ digest = CollidingDigests
    /\ AsideInit
    /\ collections = [name \in CollectionNames |-> Created]

CollisionSpec == CollisionInit /\ [][Next]_vars

(* ======================================================================= *)
(*                      the temporary files of a request                   *)
(* ======================================================================= *)
(* The handlers' treatment of uploaded audio, step by step: the per-upload *)
(* files of enroll_voiceprint and verify_voiceprint, the conversion output *)
(* of convert_to_wav, and their removal.  The store calls of the requests  *)
(* are the ones of Spec and do not touch files; they are left out here.    *)

Filenames == {"a.wav", "b.wav"}
UploadLists == {Rep(MIN_ENROLLMENT_SAMPLES, "a.wav"),
                [i \in 1..MIN_ENROLLMENT_SAMPLES |->
                    IF i = 1 THEN "a.wav" ELSE "b.wav"]}

(* f"/tmp/{customer_id}_{file.filename}" *)
UploadPath(c, filename) ==
    [kind |-> "upload", customer_id |-> c, filename |-> filename, req |-> 0, idx |-> 0]

(* f"/tmp/verify_{customer_id}.wav" *)
VerifyPath(c) ==
    [kind |-> "verify", customer_id |-> c, filename |-> "", req |-> 0, idx |-> 0]

(* tempfile.mkstemp(suffix=".wav"): a fresh name. *)
MkstempPath(req, idx) ==
    [kind |-> "mkstemp", customer_id |-> "", filename |-> "", req |-> req, idx |-> idx]

Range(seq) == {seq[i] : i \in 1..Len(seq)}

TempUnchanged ==
    UNCHANGED <<voiceprints, attempts, enrolled, cohort, nextId, deleted, committed, config, aside>>

(* The handler leaves its try block with this response pending. *)
Raise(p, status, detail) ==
    /\ pc' = [pc EXCEPT ![p] = "tmp_finally"]
    /\ loc' = [loc EXCEPT ![p].status = status, ![p].detail = detail]

(* enroll_voiceprint is entered with MIN_ENROLLMENT_SAMPLES uploads. *)
TempEnrollStart(p, c, names) ==
    /\ pc[p] = "idle"
    /\ issued < MaxRequests
    /\ issued' = issued + 1
    /\ TempUnchanged
    /\ UNCHANGED <<disk, content, last>>
    /\ pc' = [pc EXCEPT ![p] = "tmp_write"]
    /\ loc' = [loc EXCEPT ![p] =
                 [op |-> "enroll", customer_id |-> c, req |-> issued + 1,
                  paths |-> [i \in 1..Len(names) |-> UploadPath(c, names[i])],
                  i |-> 1, temp_files |-> <<>>, converted_path |-> <<>>,
                  audio |-> <<>>, scored |-> <<>>,
                  created |-> {}, status |-> 0, detail |-> None]]

(* verify_voiceprint is entered with an upload for a customer with an      *)
(* active voiceprint; the upload is read and decrypted before the try.     *)
TempVerifyStart(p, c) ==
    /\ pc[p] = "idle"
    /\ issued < MaxRequests
    /\ issued' = issued + 1
    /\ TempUnchanged
    /\ UNCHANGED <<disk, content>>
    /\ \E decrypted \in BOOLEAN :
         IF decrypted
           THEN /\ pc' = [pc EXCEPT ![p] = "tmp_write"]
                /\ loc' = [loc EXCEPT ![p] =
                             [op |-> "verify", customer_id |-> c, req |-> issued + 1,
                              paths |-> <<VerifyPath(c)>>,
                              i |-> 1, temp_files |-> <<VerifyPath(c)>>,
                              converted_path |-> <<>>,
                              audio |-> <<>>, scored |-> <<>>,
                              created |-> {}, status |-> 0, detail |-> None]]
                /\ UNCHANGED last
           ELSE /\ last' = Response(p, "verify", c, 400, "Failed to decrypt audio")
                /\ UNCHANGED <<pc, loc>>

(* enroll: temp_files.append(temp_path) follows the completed write;       *)
(* verify: the one path is removed by the finally block in any case.       *)
Tracked(l, path, written) ==
    IF l.op = "enroll" /\ written THEN Append(l.temp_files, path) ELSE l.temp_files

(* The bytes of upload idx of request req; whole: all of them. *)
Bytes(req, idx, whole) == [req |-> req, idx |-> idx, whole |-> whole]

(* open(path, "wb") and write: the file holds these bytes and no others. *)
Put(files, path, bytes) ==
    {f \in files : f.path # path} \cup {[path |-> path, bytes |-> bytes]}

(* What a reader of the file at path gets. *)
BytesAt(path) == (CHOOSE f \in content : f.path = path).bytes

(* One upload: await file.read(), decrypt, open(temp_path, "wb"), write.   *)
TempWrite(p) ==
    /\ pc[p] = "tmp_write"
    /\ TempUnchanged
    /\ UNCHANGED <<issued, last>>
    /\ LET l    == loc[p]
           path == l.paths[l.i]
       IN \E outcome \in {"written", "cancelled", "decrypt_failed", "write_failed"} :
            CASE outcome = "cancelled" ->
                   /\ UNCHANGED <<disk, content>>
                   /\ Raise(p, 499, "CancelledError")
              [] outcome = "decrypt_failed" ->
                   /\ l.op = "enroll"
                   /\ UNCHANGED <<disk, content>>
                   /\ Raise(p, 400, "Failed to decrypt audio file")
              [] outcome = "write_failed" ->
                   /\ disk' = disk \cup {path}
                   /\ content' = Put(content, path, Bytes(l.req, l.i, FALSE))
                   /\ pc' = [pc EXCEPT ![p] = "tmp_finally"]
                   /\ loc' = [loc EXCEPT ![p].created = l.created \cup {path},
                                         ![p].temp_files = Tracked(l, path, FALSE),
                                         ![p].status = 500, ![p].detail = "OSError"]
              [] outcome = "written" ->
                   /\ disk' = disk \cup {path}
                   /\ content' = Put(content, path, Bytes(l.req, l.i, TRUE))
                   /\ pc' = [pc EXCEPT ![p] = IF l.i = Len(l.paths) THEN "tmp_convert"
                                              ELSE "tmp_write"]
                   /\ loc' = [loc EXCEPT ![p].created = l.created \cup {path},
                                         ![p].temp_files = Tracked(l, path, TRUE),
                                         ![p].i = IF l.i = Len(l.paths) THEN 1
                                                  ELSE l.i + 1]

(* convert_to_wav leaves its output file behind: when it returns it, and   *)
(* when subprocess.run raises anything but FileNotFoundError and           *)
(* TimeoutExpired.                                                         *)
ConvertLeaves(outcome) == outcome \in {"converted", "other_error"}

(* convert_to_wav on the next path of the request: sf.info and ffmpeg     *)
(* read the file at the path, which has to be there for them to succeed;  *)
(* the converted file holds what ffmpeg read.                             *)
TempConvert(p) ==
    /\ pc[p] = "tmp_convert"
    /\ TempUnchanged
    /\ UNCHANGED <<issued, last, content>>
    /\ LET l    == loc[p]
           path == l.paths[l.i]
           out  == MkstempPath(l.req, l.i)
       IN \E outcome \in {"wav", "converted", "exit_nonzero", "ffmpeg_missing",
                           "timeout", "other_error"} :
            /\ outcome \in {"wav", "converted"} => path \in disk
            /\ disk' = IF ConvertLeaves(outcome) THEN disk \cup {out} ELSE disk
            /\ IF outcome = "wav"
                  THEN /\ pc' = [pc EXCEPT ![p] = "tmp_read"]
                       /\ loc' = [loc EXCEPT ![p].converted_path = <<>>,
                                             ![p].audio = <<>>]
               ELSE IF outcome = "converted"
                  THEN /\ pc' = [pc EXCEPT ![p] = "tmp_read"]
                       /\ loc' = [loc EXCEPT ![p].converted_path = <<out>>,
                                             ![p].audio = <<BytesAt(path)>>,
                                             ![p].created = l.created \cup {out}]
               ELSE /\ pc' = [pc EXCEPT ![p] = "tmp_finally"]
                    /\ loc' = [loc EXCEPT ![p].created = l.created \cup {out},
                                          ![p].status = 500,
                                          ![p].detail = "RuntimeError"]

(* _load_audio_file after convert_to_wav: sf.read of the converted file,   *)
(* or of the file at the path when none was made, and the finally block    *)
(* that removes the converted file; the audio read is what is scored.      *)
TempRead(p) ==
    /\ pc[p] = "tmp_read"
    /\ TempUnchanged
    /\ UNCHANGED <<issued, last, content>>
    /\ disk' = disk \ Range(loc[p].converted_path)
    /\ \E readOk \in BOOLEAN :
         LET l     == loc[p]
             path  == l.paths[l.i]
             there == l.converted_path # <<>> \/ path \in disk
             read  == IF l.converted_path # <<>> THEN l.audio[1] ELSE BytesAt(path)
         IN /\ readOk => there
            /\ IF ~readOk
                  THEN Raise(p, 500, "RuntimeError")
                ELSE IF l.i < Len(l.paths)
                  THEN /\ pc' = [pc EXCEPT ![p] = "tmp_convert"]
                       /\ loc' = [loc EXCEPT ![p].i = l.i + 1,
                                             ![p].scored = Append(l.scored, read)]
                ELSE /\ pc' = [pc EXCEPT ![p] = "tmp_finally"]
                     /\ loc' = [loc EXCEPT ![p].status = 200, ![p].detail = "success",
                                           ![p].scored = Append(l.scored, read)]

(* The handlers' finally blocks: os.remove of every registered path that   *)
(* exists; then the response.                                              *)
TempFinally(p) ==
    /\ pc[p] = "tmp_finally"
    /\ TempUnchanged
    /\ UNCHANGED issued
    /\ disk' = disk \ Range(loc[p].temp_files)
    /\ content' = {f \in content : f.path \notin Range(loc[p].temp_files)}
    /\ Finish(p, Response(p, loc[p].op, loc[p].customer_id,
                          loc[p].status, loc[p].detail))

TempServe(p) ==
        \/ \E c \in Customers, names \in UploadLists : TempEnrollStart(p, c, names)
        \/ \E c \in Customers : TempVerifyStart(p, c)
        \/ TempWrite(p)
        \/ TempConvert(p)
        \/ TempRead(p)
        \/ TempFinally(p)

(* The requests are taken one at a time. *)
TempNext == \E p \in Procs : (\A q \in Procs \ {p} : pc[q] = "idle") /\ TempServe(p)

TempInit ==
    /\ Init
    /\ cohort = <<>>
    /\ threshold = VERIFICATION_THRESHOLD * Scale
    /\ VOICEPRINT_ENABLED

TempSpec == TempInit /\ [][TempNext]_vars

(* The requests overlap; at most MaxOverlapping are received. *)
TempRaceNext ==
    \E p \in Procs : (pc[p] = "idle" => issued < MaxOverlapping) /\ TempServe(p)

TempRaceSpec == TempInit /\ [][TempRaceNext]_vars

(* ======================================================================= *)
(*                    the scoring functions, called alone                  *)
(* ======================================================================= *)
(* The embeddings the scoring functions are called with. *)
ScoreVectors == {<<1, 0>>, <<0, 1>>, <<1, 1>>, <<2, 1>>}

(* The lists of at most MaxCohortLen cohort vectors. *)
CohortLists == UNION {[1..n -> ScoreVectors] : n \in 0..MaxCohortLen}

(* Each behaviour makes one call. *)
CallPldaScore ==
    /\ calc = NoCall
    /\ \E emb1 \in ScoreVectors, emb2 \in ScoreVectors :
       calc' = [fn |-> "plda_score", emb1 |-> emb1, emb2 |-> emb2,
                value |-> plda_score(emb1, emb2)]

CallCohortPldaScores ==
    /\ calc = NoCall
    /\ \E reference_emb \in ScoreVectors, cohort_vectors \in CohortLists :
       calc' = [fn |-> "compute_cohort_plda_scores",
                reference_emb |-> reference_emb, cohort_vectors |-> cohort_vectors,
                value |-> compute_cohort_plda_scores(reference_emb, cohort_vectors)]

(* The cohort score lists compute_as_norm_score is called with, in score *)
(* units.                                                                *)
ScoreLists == UNION {[1..n -> 0..2] : n \in 1..MaxCohortLen}

CallAsNormScore ==
    /\ calc = NoCall
    /\ \E raw_score \in 0..2, enrollment_cohort_scores \in ScoreLists,
          test_cohort_scores \in ScoreLists :
       calc' = [fn |-> "compute_as_norm_score", raw_score |-> raw_score,
                enrollment_cohort_scores |-> enrollment_cohort_scores,
                test_cohort_scores |-> test_cohort_scores,
                sigma_e |-> Std(enrollment_cohort_scores),
                sigma_t |-> Std(test_cohort_scores),
                value |-> compute_as_norm_score(raw_score, enrollment_cohort_scores,
                                                test_cohort_scores)]

ScoringNext ==
    /\ \/ CallPldaScore
       \/ CallCohortPldaScores
       \/ CallAsNormScore
    /\ UNCHANGED <<voiceprints, attempts, enrolled, cohort, nextId, pc, loc, last,
                   issued, deleted, committed, config, disk, content, api_keys, key_last, revoked, tasks, collections>>

ScoringSpec == TempInit /\ [][ScoringNext]_vars

(* ======================================================================= *)
(*                               API keys                                  *)
(* ======================================================================= *)
(* The subjects of the bearer tokens. *)
Subjects == {"usage@example.com", "other@example.com"}

(* The raw key generated for the n-th row: "sk-" and a random part; 0 is a *)
(* key that was never generated.                                           *)
RawKey(n) == [prefix |-> "sk-", random_part |-> n]

(* _hash_key: the HMAC-SHA256 of the raw key under the pepper. *)
hash_key(raw_key) == [hmac |-> raw_key.random_part]

(* No X-API-Key header, or an empty one. *)
NoHeader == [prefix |-> "", random_part |-> 0]

(* What a request can carry in X-API-Key. *)
PresentedKeys == {RawKey(n) : n \in 0..MaxKeys} \cup {NoHeader}

(* The row found whatever its is_active. *)
verify_api_key_any(presented_key) ==
    IF presented_key = NoHeader
      THEN {}
      ELSE {k \in api_keys : k.key_hash = hash_key(presented_key)}

(* verify_api_key: the active row with the hash of the presented key. *)
verify_api_key(presented_key) ==
    IF presented_key = NoHeader
      THEN {}
      ELSE {k \in api_keys : k.key_hash = hash_key(presented_key) /\ k.is_active}

KeyResponse(op, key_id, status) == [op |-> op, key_id |-> key_id, status |-> status]

(* POST /api-keys *)
create_api_key(subject) ==
    LET id == Cardinality(api_keys) + 1
    IN /\ id <= MaxKeys
       /\ api_keys' = api_keys \cup
             {[id |-> id, user_id |-> subject, key_hash |-> hash_key(RawKey(id)),
               is_active |-> TRUE]}
       /\ key_last' = KeyResponse("create", id, 200)
       /\ UNCHANGED revoked

(* DELETE /api-keys/{key_id} *)
delete_api_key(subject, key_id) ==
    LET found == {k \in api_keys : k.id = key_id /\ k.user_id = subject}
    IN IF found = {}
         THEN /\ key_last' = KeyResponse("delete", key_id, 404)
              /\ UNCHANGED <<api_keys, revoked>>
         ELSE /\ api_keys' = {IF k \in found /\ k.is_active
                                 THEN [k EXCEPT !.is_active = FALSE] ELSE k
                               : k \in api_keys}
              /\ key_last' = KeyResponse("delete", key_id, 204)
              /\ revoked' = revoked \cup {key_id}

(* A request to a protected service endpoint (translate, tts, stt,         *)
(* transliterate): require_api_key, then the endpoint's own answer.        *)
require_api_key(x_api_key) ==
    /\ key_last' =
          IF x_api_key = NoHeader
            THEN KeyResponse("service", 0, 401)
          ELSE IF verify_api_key(x_api_key) = {}
            THEN KeyResponse("service", x_api_key.random_part, 401)
          ELSE KeyResponse("service", x_api_key.random_part, 200)
    /\ UNCHANGED <<api_keys, revoked>>

ApiKeyNext ==
    /\ \/ \E subject \in Subjects : create_api_key(subject)
       \/ \E subject \in Subjects, key_id \in 1..MaxKeys : delete_api_key(subject, key_id)
       \/ \E x_api_key \in PresentedKeys : require_api_key(x_api_key)
    /\ UNCHANGED <<voiceprints, attempts, enrolled, cohort, nextId, pc, loc, last,
                   issued, deleted, committed, config, disk, content, calc, tasks, collections>>

ApiKeySpec == TempInit /\ [][ApiKeyNext]_vars

(* ======================================================================= *)
(*                    the awaits of one verify_speaker call                *)
(* ======================================================================= *)
(* verify_speaker from the point where both embeddings are at hand, one    *)
(* step per submission, completion and resumption.                         *)
SetTasks(p, t) == tasks' = [tasks EXCEPT ![p] = t]

(* Both embeddings are there: the call reaches the scoring part. *)
VerifySpeakerBegin(p) ==
    /\ tasks[p].at = "idle"
    /\ SetTasks(p, [NoTasks EXCEPT !.at = "raw_score"])

(* raw_score = await loop.run_in_executor(executor, plda_score, ...): the  *)
(* job is handed to the executor and the coroutine waits for it.           *)
SubmitRawScore(p) ==
    /\ tasks[p].at = "raw_score"
    /\ SetTasks(p, [tasks[p] EXCEPT !.raw_score = "running", !.at = "await_raw_score"])

(* The executor has computed the raw score. *)
RawScoreDone(p) ==
    /\ tasks[p].raw_score = "running"
    /\ SetTasks(p, [tasks[p] EXCEPT !.raw_score = "done"])

(* The coroutine resumes with the raw score; the two cohort queries are    *)
(* created and handed to asyncio.gather, which starts both and waits.      *)
GatherCohortQueries(p) ==
    /\ tasks[p].at = "await_raw_score"
    /\ tasks[p].raw_score = "done"
    /\ SetTasks(p, [tasks[p] EXCEPT !.cohort_enroll = "running",
                                     !.cohort_test = "running",
                                     !.at = "await_gather"])

(* The vector store has answered one of the cohort queries. *)
CohortQueryDone(p, query) ==
    /\ tasks[p][query] = "running"
    /\ SetTasks(p, [tasks[p] EXCEPT ![query] = "done"])

(* gather returns; with an empty cohort the call ends, otherwise the       *)
(* cohort scores are computed next.                                        *)
AfterGather(p, empty) ==
    /\ tasks[p].at = "await_gather"
    /\ tasks[p].cohort_enroll = "done"
    /\ tasks[p].cohort_test = "done"
    /\ SetTasks(p, [tasks[p] EXCEPT !.at = IF empty THEN "idle" ELSE "cohort_scores"])

(* The two awaited compute_cohort_plda_scores jobs, one after the other. *)
ComputeCohortScores(p) ==
    /\ tasks[p].at = "cohort_scores"
    /\ SetTasks(p, [tasks[p] EXCEPT !.at = "as_norm"])

(* compute_as_norm_score and the decision; the call returns. *)
AsNorm(p) ==
    /\ tasks[p].at = "as_norm"
    /\ SetTasks(p, [tasks[p] EXCEPT !.as_norm = "done", !.at = "idle"])

AwaitNext ==
    /\ \E p \in Procs :
          \/ VerifySpeakerBegin(p)
          \/ SubmitRawScore(p)
          \/ RawScoreDone(p)
          \/ GatherCohortQueries(p)
          \/ \E query \in {"cohort_enroll", "cohort_test"} : CohortQueryDone(p, query)
          \/ \E empty \in BOOLEAN : AfterGather(p, empty)
          \/ ComputeCohortScores(p)
          \/ AsNorm(p)
    /\ UNCHANGED <<voiceprints, attempts, enrolled, cohort, nextId, pc, loc, last,
                   issued, deleted, committed, config, disk, content, calc, api_keys, key_last, revoked, collections>>

AwaitSpec == TempInit /\ [][AwaitNext]_vars

(* ======================================================================= *)
(*                 the collections when the verifier starts                *)
(* ======================================================================= *)
(* What the store can hold under a name when the service starts. *)
CollectionStates ==
    {Absent} \cup
    {[exists |-> TRUE, size |-> size, distance |-> distance, points |-> points] :
        size \in {EmbeddingDim, 512}, distance \in {"Cosine", "Euclid"},
        points \in {{}, {1}}}

(* qdrant_client.create_collection: refused for a name that exists, and *)
(* failing when the store does.                                         *)
create_collection(coll, ok) ==
    IF coll.exists \/ ~ok
      THEN [coll |-> coll, raised |-> TRUE]
      ELSE [coll |-> Created, raised |-> FALSE]

(* The except branch: "Collection doesn't exist, create it". *)
CreateAsMissing(coll, ok) ==
    LET r == create_collection(coll, ok)
    IN [coll |-> r.coll, raised |-> r.raised, create_on_existing |-> coll.exists]

(* ensure_collection_exists on a collection in state coll; get_ok,      *)
(* delete_ok, create_ok, retry_ok: whether the store serves the call.    *)
EnsureOutcome(coll, get_ok, delete_ok, create_ok, retry_ok) ==
    IF coll.exists /\ get_ok
      THEN IF coll.size = EmbeddingDim
             THEN [coll |-> coll, raised |-> FALSE, create_on_existing |-> FALSE]
           ELSE IF ~delete_ok
             THEN CreateAsMissing(coll, retry_ok)
           ELSE LET r == create_collection(Absent, create_ok)
                IN IF ~r.raised
                     THEN [coll |-> r.coll, raised |-> FALSE,
                           create_on_existing |-> FALSE]
                     ELSE CreateAsMissing(Absent, retry_ok)
      ELSE CreateAsMissing(coll, retry_ok)

ensure_collection_exists(collection_name) ==
    \E get_ok \in BOOLEAN, delete_ok \in BOOLEAN, create_ok \in BOOLEAN,
       retry_ok \in BOOLEAN :
       LET before == collections[collection_name]
           out    == EnsureOutcome(before, get_ok, delete_ok, create_ok, retry_ok)
       IN /\ collections' = [collections EXCEPT ![collection_name] = out.coll]
          /\ calc' = [fn |-> "ensure_collection_exists",
                      collection_name |-> collection_name,
                      store_ok |-> get_ok /\ delete_ok /\ create_ok /\ retry_ok,
                      before |-> before, after |-> out.coll, raised |-> out.raised,
                      create_on_existing |-> out.create_on_existing]

CollectionNext ==
    /\ \E collection_name \in CollectionNames : ensure_collection_exists(collection_name)
    /\ UNCHANGED <<voiceprints, attempts, enrolled, cohort, nextId, pc, loc, last,
                   issued, deleted, committed, config, disk, content, api_keys, key_last, revoked, tasks>>

CollectionInit ==
    /\ voiceprints = {}
    /\ attempts = <<>>
    /\ enrolled = <<>>
    /\ cohort = <<>>
    /\ nextId = 1
    /\ pc = [p \in Procs |-> "idle"]
    /\ loc = [p \in Procs |-> Idle]
    /\ last = Response(0, "none", None, 0, None)
    /\ issued = 0
    /\ deleted = {}
    /\ committed = [c \in Customers |-> <<>>]
    /\ threshold = VERIFICATION_THRESHOLD * Scale
    /\ VOICEPRINT_ENABLED = TRUE
    /\ disk = {}
    /\ content = {}
    /\ digest = DistinctDigests
    /\ AsideInit
    /\ collections \in [CollectionNames -> CollectionStates]

CollectionSpec == CollectionInit /\ [][CollectionNext]_vars

(* ======================================================================= *)
(*                               properties                                *)
(* ======================================================================= *)
Quiescent == \A p \in Procs : pc[p] = "idle"

HasRow(c) == \E v \in voiceprints : v.customer_id = c
HasCentroid(c) == point_id(c) \in DOMAIN enrolled

(* This step receives a verify request for customer c. *)
VerifyIssued(c) ==
    /\ issued' = issued + 1
    /\ \/ \E p \in Procs : /\ loc[p].op = "idle"
                             /\ loc'[p].op = "verify"
                             /\ loc'[p].customer_id = c
       \/ loc' = loc /\ last'.op = "verify" /\ last'.customer_id = c

(* Worker p ends, in this step, the enroll request it was about to commit. *)
EnrollCommitted(p) == pc[p] = "enroll_commit" /\ pc'[p] = "idle"

C2_AtMostOneActive ==
    \A c \in Customers :
        Cardinality({v \in voiceprints : v.customer_id = c /\ v.is_active}) <= 1

(* Two enrolls of one customer raced and the constraint refused the second. *)
C2_Witness ==
    /\ last.op = "enroll"
    /\ last.detail = "IntegrityError"
    /\ Cardinality({v \in voiceprints :
                       v.customer_id = last.customer_id /\ v.is_active}) = 1

Overtaken(q) ==
    /\ pc[q] = "enroll_commit"
    /\ \E v \in voiceprints :
          v.customer_id = loc[q].customer_id /\ v.id # loc[q].existing_vp

VerifyEnds ==
    /\ last'.op = "verify"
    /\ \/ \E p \in Procs : loc[p].op = "verify" /\ pc'[p] = "idle"
       \/ issued' = issued + 1 /\ loc' = loc

C9_ShortCohortFatal ==
    (last.op = "verify" /\ last.detail = "decision") =>
        /\ last.cohort_used[1] >= COHORT_TOP_K
        /\ last.cohort_used[2] >= COHORT_TOP_K
        /\ last.cohort_size = last.cohort_used[1]
        /\ last.cohort_size = last.cohort_used[2]

C13_SampleCountRejected ==
    [][\A p \in Procs, c \in Customers, files \in FileLists :
         (VOICEPRINT_ENABLED /\ EnrollStart(p, c, files)) =>
            IF Len(files) < MIN_ENROLLMENT_SAMPLES \/ Len(files) > MAX_ENROLLMENT_SAMPLES
              THEN /\ pc'[p] = "idle"
                   /\ last'.op = "enroll" /\ last'.customer_id = c
                   /\ last'.status \in 400..499
                   /\ enrolled' = enrolled
                   /\ voiceprints' = voiceprints
                   /\ attempts' = attempts
              ELSE /\ pc'[p] = "enroll_upsert"
                   /\ loc'[p].num_samples = Len(files)
      ]_vars

C16_DeleteNotFoundStatus ==
    [][\A p \in Procs, c \in Customers :
         (VOICEPRINT_ENABLED /\ DeleteQuery(p, c) /\ RowsOf(c) = {}) =>
            /\ pc'[p] = "idle"
            /\ last'.op = "delete" /\ last'.customer_id = c
            /\ last'.status = 200
            /\ last'.detail = "not_found"
            /\ voiceprints' = voiceprints
            /\ attempts' = attempts
            /\ enrolled' = enrolled
      ]_vars

(* C16 as amended: with the service enabled, a delete for a customer       *)
(* without a voiceprint row (never                                         *)
(* enrolled, or already deleted) is answered at once with HTTP 404         *)
(* "Voiceprint not found" and leaves the voiceprints table, the attempts   *)
(* table and the enrolled collection unchanged, so delete(c); delete(c)    *)
(* ends in the same state as a single delete(c).                           *)
C16_DeleteMissingIs404 ==
    [][\A p \in Procs, c \in Customers :
         (VOICEPRINT_ENABLED /\ DeleteQuery(p, c) /\ RowsOf(c) = {}) =>
            /\ pc'[p] = "idle"
            /\ last'.op = "delete" /\ last'.customer_id = c
            /\ last'.status = 404
            /\ last'.detail = "Voiceprint not found"
            /\ voiceprints' = voiceprints
            /\ attempts' = attempts
            /\ enrolled' = enrolled
      ]_vars

(* The second of two deletes of an enrolled customer has been answered. *)
C16_Witness ==
    /\ last.op = "delete"
    /\ last.status = 404
    /\ last.customer_id \in deleted
    /\ RowsOf(last.customer_id) = {}

(* C17: with VOICEPRINT_ENABLED = false every request to a voiceprint      *)
(* endpoint (enroll, verify, delete, update, history, health) is answered  *)
(* at once with the 503 service-disabled response, and neither the         *)
(* relational store nor the vector store is read or written: the answer    *)
(* does not depend on them and they are unchanged.                         *)
C17_DisabledAnswers503 ==
    [][(~VOICEPRINT_ENABLED /\ issued' = issued + 1) =>
          /\ last'.status = 503
          /\ last'.detail = "Voiceprint service is disabled"
          /\ pc' = pc
          /\ voiceprints' = voiceprints
          /\ attempts' = attempts
          /\ enrolled' = enrolled
      ]_vars

(* C18: when an enroll or verify request ends, on whatever exit path      *)
(* (success, decryption failure, conversion or decode failure, any other   *)
(* exception while writing or converting, cancellation), none of the       *)
(* temporary files it created exists any more.                             *)
C18_TempFilesRemoved ==
    [][\A p \in Procs :
         (pc[p] = "tmp_finally" /\ pc'[p] = "idle") =>
            loc[p].created \cap disk' = {}
      ]_vars

C22_DeletedKeyRejected ==
    [][\A x_api_key \in PresentedKeys \ {NoHeader} :
         LET id == x_api_key.random_part
         IN /\ (require_api_key(x_api_key) /\ id \in revoked) =>
                   key_last'.status = 401
            /\ (require_api_key(x_api_key) /\ id \notin revoked
                  /\ \E k \in api_keys : k.id = id) =>
                   key_last'.status # 401
            /\ \A k \in api_keys :
                  (~k.is_active /\ \E subject \in Subjects : delete_api_key(subject, k.id))
                     => k \in api_keys'
      ]_vars

(* A deleted key has been presented and refused. *)
C22_Witness ==
    /\ key_last.op = "service"
    /\ key_last.key_id \in revoked
    /\ key_last.status = 401

(* C23: within one verify call the raw PLDA score computation and the two    *)
(* cohort top-k queries are all started before any of the three has          *)
(* completed, and AS-Norm starts only after all three have completed.        *)
C23_ThreeConcurrentAwaits ==
    \A p \in Procs :
       LET three == {tasks[p].raw_score, tasks[p].cohort_enroll, tasks[p].cohort_test}
       IN /\ "done" \in three => "not_started" \notin three
          /\ tasks[p].as_norm # "not_started" => three = {"done"}

(* C24: in verify, the enrolled-side statistics are those of the scores of   *)
(* the enrolled centroid against the cohort vectors retrieved for the test   *)
(* embedding, and the test-side statistics those of the scores of the test   *)
(* embedding against the cohort vectors retrieved for the enrolled centroid. *)
C24_CrossPairing ==
    [][\A p \in Procs :
         (pc[p] = "verify_cohort" /\ pc'[p] = "verify_commit") =>
            LET e_e == loc[p].user_emb
                e_t == loc[p].test_emb
                cohort_e == get_top_k_cohort_vectors(cohort, e_e, COHORT_TOP_K)
                cohort_t == get_top_k_cohort_vectors(cohort, e_t, COHORT_TOP_K)
                s_e == compute_cohort_plda_scores(e_e, cohort_t)
                s_t == compute_cohort_plda_scores(e_t, cohort_e)
            IN loc'[p].result.cohort_stats =
                  [enrollment_cohort_mean |-> Mean(s_e),
                   enrollment_cohort_std  |-> Std(s_e),
                   test_cohort_mean       |-> Mean(s_t),
                   test_cohort_std        |-> Std(s_t)]
      ]_vars

(* C25: for every pair of non-empty cohort score lists, each standard        *)
(* deviation used as a denominator of the normalization is at least the      *)
(* floor (1e-8): a deviation that is zero or below the floor is replaced by  *)
(* the floor.                                                                *)
C25_SigmaClamped ==
    calc.fn = "compute_as_norm_score" =>
        /\ calc.sigma_e >= SigmaFloor
        /\ calc.sigma_t >= SigmaFloor

(* C26: after ensure_collection returns, the collection exists with vector  *)
(* size dim and cosine distance; if it existed with size dim its points are  *)
(* unchanged; if it existed with another size it is empty; and a failure of  *)
(* the store while inspecting or dropping an existing collection is not      *)
(* taken for "the collection does not exist".                                *)
C26_EnsureCollection ==
    calc.fn = "ensure_collection_exists" =>
        /\ ~calc.raised =>
              /\ calc.after.exists
              /\ calc.after.size = EmbeddingDim
              /\ calc.after.distance = "Cosine"
              /\ (calc.before.exists /\ calc.before.size = EmbeddingDim) =>
                     calc.after.points = calc.before.points
              /\ (calc.before.exists /\ calc.before.size # EmbeddingDim) =>
                     calc.after.points = {}
        /\ ~calc.create_on_existing

IsPrefix(s, t) == Len(s) <= Len(t) /\ \A i \in 1..Len(s) : t[i] = s[i]

InUse(q) ==
    IF pc[q] \in {"tmp_write", "tmp_convert", "tmp_read"}
      THEN loc[q].created \cap Range(loc[q].paths)
      ELSE {}

(* C30: requests in flight together do not interfere through temporary      *)
(* files: every clip a request scores is the whole of the bytes it received  *)
(* for that clip, and no step of a request removes or overwrites a file      *)
(* that another request has written and is still using.                      *)
C30_NoTempFileInterference ==
    [][\A p \in Procs :
         /\ (pc[p] = "tmp_read" /\ Len(loc'[p].scored) > Len(loc[p].scored)) =>
                loc'[p].scored[Len(loc'[p].scored)]
                   = Bytes(loc[p].req, loc[p].i, TRUE)
         /\ pc'[p] # pc[p] \/ loc'[p] # loc[p] =>
                \A q \in Procs \ {p} : \A path \in InUse(q) :
                   /\ path \in disk'
                   /\ \E f \in content' : f.path = path /\ f.bytes = BytesAt(path)
      ]_vars

=============================================================================
